---- MODULE Spec2Model ----
(***************************************************************************)
(* Transfer-Assist: the relay server (Server.js) and the two browser list  *)
(* scripts (script.js, the college script).                                *)
(*                                                                         *)
(* JavaScript values are tagged records; a JSON object is a function from  *)
(* its keys to values, a missing key reads as undefined.                   *)
(***************************************************************************)
EXTENDS Integers, Sequences, FiniteSets, TLC

(* ------------------------------ bounds -------------------------------- *)
NumRequests == 2
MaxClicks == 3
MaxLen == 2

(* -------------------------- JavaScript values -------------------------- *)
Undefined == [t |-> "undefined"]
Null == [t |-> "null"]
Bool(b) == [t |-> "boolean", b |-> b]
Num(n) == [t |-> "number", n |-> n]
Str(s) == [t |-> "string", s |-> s]
Arr(a) == [t |-> "array", a |-> a]
Obj(o) == [t |-> "object", o |-> o]
\* an Error instance: message is an own, non-enumerable string property
ErrorObj(msg) == [t |-> "error", message |-> msg]
EmptyObj == Obj([k \in {} |-> Undefined])

\* ToBoolean: undefined, null, false, 0 and "" are falsy
Truthy(v) ==
    /\ v.t \notin {"undefined", "null"}
    /\ ~(v.t = "boolean" /\ ~v.b)
    /\ ~(v.t = "number" /\ v.n = 0)
    /\ ~(v.t = "string" /\ v.s = "")

\* a || b
JsOr(a, b) == IF Truthy(a) THEN a ELSE b

\* property read o.k (destructuring reads the same way); the caller has
\* excluded null and undefined, on which the read throws
Get(o, k) ==
    CASE o.t = "object" -> IF k \in DOMAIN o.o THEN o.o[k] ELSE Undefined
      [] o.t = "error" -> IF k = "message" THEN Str(o.message) ELSE Undefined
      [] OTHER -> Undefined

\* reading a property of null or undefined throws a TypeError
ReadThrows(v) == v.t \in {"undefined", "null"}

\* JSON.stringify followed by the client's parse: what a JSON body carries.
\* Object members whose value is undefined are dropped, undefined array
\* elements become null, an Error has no enumerable members.
RECURSIVE ToJSON(_)
ToJSON(v) ==
    CASE v.t = "array" ->
           Arr([i \in 1..Len(v.a) |->
                  IF v.a[i].t = "undefined" THEN Null ELSE ToJSON(v.a[i])])
      [] v.t = "object" ->
           Obj([k \in {x \in DOMAIN v.o : v.o[x].t # "undefined"} |-> ToJSON(v.o[k])])
      [] v.t = "error" -> EmptyObj
      [] OTHER -> v

(* ---------------------------- relay server ----------------------------- *)
DefaultModel == "claude-sonnet-4-5-20250929"
DefaultMaxTokens == 1200

Requests == 1..NumRequests

Hi == Obj([role |-> Str("user"), content |-> Str("hi")])
Yo == Obj([role |-> Str("assistant"), content |-> Str("yo")])

\* request bodies as sent by clients: text that parses to a JSON value, or
\* text that does not parse
Malformed == [wellformed |-> FALSE]
Text(v) == [wellformed |-> TRUE, value |-> v]

RawBodies ==
    { Malformed,
      Text(Num(5)),
      Text(Obj([messages |-> Arr(<<Hi>>)])),
      Text(Obj([model |-> Str("x"), max_tokens |-> Num(5), messages |-> Arr(<<>>)])),
      Text(Obj([model |-> Str("x"), messages |-> Arr(<<Hi, Yo>>)])),
      Text(Obj([max_tokens |-> Num(5), messages |-> Arr(<<Yo, Hi>>)])),
      Text(Obj([model |-> Str(""), max_tokens |-> Num(0), messages |-> Arr(<<Hi>>)])),
      Text(Obj([model |-> Null, max_tokens |-> Bool(FALSE), messages |-> Arr(<<Hi>>)])),
      Text(Obj([model |-> Str("x"), max_tokens |-> Num(5)])) }

\* what anthropic.messages.create can settle with
Resolved(v) == [kind |-> "resolved", value |-> v]
Rejected(e) == [kind |-> "rejected", value |-> e]
Message ==
    Obj([id |-> Str("msg_1"), stop_sequence |-> Null,
         content |-> Arr(<<Obj([type |-> Str("text"), text |-> Str("hello")])>>)])
Outcomes ==
    { Resolved(Message), Resolved(Arr(<<>>)),
      Rejected(ErrorObj("rate limited")), Rejected(Str("rate limited")),
      Rejected(Null) }

None == [t |-> "none"]
ErrorPage == [t |-> "html"]

\* Per request: pc is the handling's position, raw the body as sent,
\* entered whether the route handler ran, calls the upstream calls issued
\* for it, outcome how its upstream call settled, responses what was sent
\* back.  errorLog is what console.error printed.  forwardsRejection is fixed
\* by the installed router: whether a route handler's rejected promise is
\* handed to the framework's error handler (which answers 500) or dropped.
\* Page: script is the script the page runs, input the field's value, ls the
\* list's items, alerts the alerts raised, clicks the field's value at each
\* click so far.
VARIABLES pc, raw, entered, calls, outcome, responses, errorLog, forwardsRejection,
          script, input, ls, myColleges, alerts, clicks

relayVars == <<pc, raw, entered, calls, outcome, responses, errorLog, forwardsRejection>>
pageVars == <<script, input, ls, myColleges, alerts, clicks>>
vars == <<relayVars, pageVars>>

\* a parser that lets unparsable text through as an empty body
ParseJsonLenient(body) ==
    IF body.wellformed /\ body.value.t \in {"object", "array"}
    THEN [ok |-> TRUE, body |-> body.value]
    ELSE [ok |-> TRUE, body |-> EmptyObj]

\* express.json(): strict mode accepts only a top-level object or array
ParseJson(body) ==
    IF body.wellformed /\ body.value.t \in {"object", "array"}
    THEN [ok |-> TRUE, body |-> body.value]
    ELSE [ok |-> FALSE]

\* the defaults filled in together as soon as either field is missing
CallArgsJointDefaults(body) ==
    LET both == Truthy(Get(body, "model")) /\ Truthy(Get(body, "max_tokens")) IN
    [model |-> IF both THEN Get(body, "model") ELSE Str(DefaultModel),
     max_tokens |-> IF both THEN Get(body, "max_tokens") ELSE Num(DefaultMaxTokens),
     messages |-> Get(body, "messages")]

\* messages defaulted like the other two fields
CallArgsDefaultMessages(body) ==
    [model |-> JsOr(Get(body, "model"), Str(DefaultModel)),
     max_tokens |-> JsOr(Get(body, "max_tokens"), Num(DefaultMaxTokens)),
     messages |-> JsOr(Get(body, "messages"), Arr(<<>>))]

\* the argument of anthropic.messages.create
CallArgs(body) ==
    [model |-> JsOr(Get(body, "model"), Str(DefaultModel)),
     max_tokens |-> JsOr(Get(body, "max_tokens"), Num(DefaultMaxTokens)),
     messages |-> Get(body, "messages")]

\* the upstream result wrapped in an envelope
JsonResponseWrapped(status, v) == [status |-> status, body |-> ToJSON(Obj([data |-> v]))]

\* res.json(v) / res.status(s).json(v)
JsonResponse(status, v) == [status |-> status, body |-> ToJSON(v)]

PageNotLoaded ==
    /\ script = "none"
    /\ input = <<>>
    /\ ls = <<>>
    /\ myColleges = <<>>
    /\ alerts = 0
    /\ clicks = <<>>

Init ==
    /\ pc = [r \in Requests |-> "idle"]
    /\ raw = [r \in Requests |-> None]
    /\ entered = [r \in Requests |-> FALSE]
    /\ calls = [r \in Requests |-> <<>>]
    /\ outcome = [r \in Requests |-> None]
    /\ responses = [r \in Requests |-> <<>>]
    /\ errorLog = {}
    /\ forwardsRejection \in BOOLEAN
    /\ PageNotLoaded

\* a client sends POST /api/anthropic
Arrive(r) ==
    /\ pc[r] = "idle"
    /\ \E b \in RawBodies : raw' = [raw EXCEPT ![r] = b]
    /\ pc' = [pc EXCEPT ![r] = "inflight"]
    /\ UNCHANGED <<entered, calls, outcome, responses, errorLog, forwardsRejection, pageVars>>

\* a handler that blocks the event loop while an upstream call is pending
DeliverSerial(r) ==
    /\ pc[r] = "inflight"
    /\ \A o \in Requests : pc[o] # "awaiting"
    /\ LET parsed == ParseJson(raw[r]) IN
         IF ~parsed.ok
         THEN /\ responses' = [responses EXCEPT ![r] = Append(@, [status |-> 400, body |-> ErrorPage])]
              /\ pc' = [pc EXCEPT ![r] = "done"]
              /\ UNCHANGED <<entered, calls>>
         ELSE /\ entered' = [entered EXCEPT ![r] = TRUE]
              /\ calls' = [calls EXCEPT ![r] = Append(@, CallArgs(parsed.body))]
              /\ pc' = [pc EXCEPT ![r] = "awaiting"]
              /\ UNCHANGED responses
    /\ UNCHANGED <<raw, outcome, errorLog, forwardsRejection, pageVars>>

\* the body has been read: the JSON middleware runs, then the route handler
\* up to its await
Deliver(r) ==
    /\ pc[r] = "inflight"
    /\ LET parsed == ParseJson(raw[r]) IN
         IF ~parsed.ok
         THEN /\ responses' = [responses EXCEPT ![r] = Append(@, [status |-> 400, body |-> ErrorPage])]
              /\ pc' = [pc EXCEPT ![r] = "done"]
              /\ UNCHANGED <<entered, calls>>
         ELSE /\ entered' = [entered EXCEPT ![r] = TRUE]
              /\ calls' = [calls EXCEPT ![r] = Append(@, CallArgs(parsed.body))]
              /\ pc' = [pc EXCEPT ![r] = "awaiting"]
              /\ UNCHANGED responses
    /\ UNCHANGED <<raw, outcome, errorLog, forwardsRejection, pageVars>>

\* the upstream call of request r settles
Settle(r) ==
    /\ pc[r] = "awaiting"
    /\ \E o \in Outcomes : outcome' = [outcome EXCEPT ![r] = o]
    /\ pc' = [pc EXCEPT ![r] = "settled"]
    /\ UNCHANGED <<raw, entered, calls, responses, errorLog, forwardsRejection, pageVars>>

\* a handler that re-issues the upstream call once when it fails
ResumeRetry(r) ==
    /\ pc[r] = "settled"
    /\ IF outcome[r].kind = "resolved"
       THEN /\ responses' = [responses EXCEPT ![r] = Append(@, JsonResponse(200, outcome[r].value))]
            /\ pc' = [pc EXCEPT ![r] = "done"]
            /\ UNCHANGED <<errorLog, calls>>
       ELSE IF Len(calls[r]) < 2
       THEN /\ calls' = [calls EXCEPT ![r] = Append(@, calls[r][1])]
            /\ pc' = [pc EXCEPT ![r] = "awaiting"]
            /\ UNCHANGED <<errorLog, responses>>
       ELSE /\ errorLog' = errorLog \cup {<<r, outcome[r].value>>}
            /\ pc' = [pc EXCEPT ![r] = "done"]
            /\ responses' = [responses EXCEPT ![r] =
                   Append(@, JsonResponse(500, Obj([error |-> Get(outcome[r].value, "message")])))]
            /\ UNCHANGED calls
    /\ UNCHANGED <<raw, entered, outcome, forwardsRejection, pageVars>>

\* the handler resumes after its await
Resume(r) ==
    /\ pc[r] = "settled"
    /\ pc' = [pc EXCEPT ![r] = "done"]
    /\ IF outcome[r].kind = "resolved"
       THEN /\ responses' = [responses EXCEPT ![r] = Append(@, JsonResponse(200, outcome[r].value))]
            /\ UNCHANGED errorLog
       ELSE LET error == outcome[r].value IN
            /\ errorLog' = errorLog \cup {<<r, error>>}
            /\ IF ReadThrows(error)
               THEN \* error.message throws inside the catch block: the handler's
                    \* promise rejects without a response from the handler
                    IF forwardsRejection
                    THEN responses' = [responses EXCEPT ![r] = Append(@, [status |-> 500, body |-> ErrorPage])]
                    ELSE UNCHANGED responses
               ELSE responses' = [responses EXCEPT ![r] =
                        Append(@, JsonResponse(500, Obj([error |-> Get(error, "message")])))]
    /\ UNCHANGED <<raw, entered, calls, outcome, forwardsRejection, pageVars>>

Next == \E r \in Requests : Arrive(r) \/ Deliver(r) \/ Settle(r) \/ Resume(r)

Spec == Init /\ [][Next]_vars

(* ------------------------- browser list scripts ------------------------ *)
\* text is a sequence of characters
Chars == {" ", "a"}
Texts == UNION {[1..n -> Chars] : n \in 0..MaxLen}
IsSpace(c) == c = " "

RECURSIVE TrimStart(_)
TrimStart(s) == IF s # <<>> /\ IsSpace(Head(s)) THEN TrimStart(Tail(s)) ELSE s
RECURSIVE TrimEnd(_)
TrimEnd(s) ==
    IF s # <<>> /\ IsSpace(s[Len(s)]) THEN TrimEnd(SubSeq(s, 1, Len(s) - 1)) ELSE s
\* String.prototype.trim
Trim(s) == TrimEnd(TrimStart(s))

Scripts == {"script.js", "college"}

\* the server is not involved in the page's behaviour
RelayIdle ==
    /\ pc = [r \in Requests |-> "idle"]
    /\ raw = [r \in Requests |-> None]
    /\ entered = [r \in Requests |-> FALSE]
    /\ calls = [r \in Requests |-> <<>>]
    /\ outcome = [r \in Requests |-> None]
    /\ responses = [r \in Requests |-> <<>>]
    /\ errorLog = {}
    /\ forwardsRejection = FALSE

\* a page has loaded one of the two scripts
PageInit ==
    /\ script \in Scripts
    /\ input = <<>>
    /\ ls = <<>>
    /\ myColleges = <<>>
    /\ alerts = 0
    /\ clicks = <<>>
    /\ RelayIdle

\* the user edits the input field
Type ==
    /\ \E s \in Texts : input' = s
    /\ UNCHANGED <<script, ls, myColleges, alerts, clicks, relayVars>>

\* a listener that appends the field's value untrimmed
ClickUntrimmed ==
    /\ Len(clicks) < MaxClicks
    /\ clicks' = Append(clicks, input)
    /\ IF Trim(input) # <<>>
       THEN /\ ls' = Append(ls, input)
            /\ myColleges' = IF script = "college" THEN Append(myColleges, input)
                             ELSE myColleges
            /\ input' = <<>>
            /\ UNCHANGED alerts
       ELSE /\ alerts' = alerts + 1
            /\ UNCHANGED <<ls, myColleges, input>>
    /\ UNCHANGED <<script, relayVars>>

\* the click listener; clicks records the field's value at each click
Click ==
    /\ Len(clicks) < MaxClicks
    /\ clicks' = Append(clicks, input)
    /\ LET value == Trim(input) IN
         IF value # <<>>
         THEN /\ ls' = Append(ls, value)
              /\ myColleges' = IF script = "college" THEN Append(myColleges, value)
                               ELSE myColleges
              /\ input' = <<>>
              /\ UNCHANGED alerts
         ELSE /\ alerts' = alerts + 1
              /\ UNCHANGED <<ls, myColleges, input>>
    /\ UNCHANGED <<script, relayVars>>

PageNext == Type \/ Click

PageSpec == PageInit /\ [][PageNext]_vars

(* ------------------------------- claims -------------------------------- *)
Issued(r) == calls[r] # <<>>
Body(r) == raw[r].value
Has(r, k) == Body(r).t = "object" /\ k \in DOMAIN Body(r).o
Answered(r) == responses[r] # <<>>

\* C1: a body that supplies both model and max_tokens, whatever their
\* values, is forwarded upstream with exactly the supplied model and
\* max_tokens.
C1_SuppliedFieldsForwarded ==
    \A r \in Requests :
        Issued(r) /\ Has(r, "model") /\ Has(r, "max_tokens") =>
            /\ calls[r][1].model = Body(r).o.model
            /\ calls[r][1].max_tokens = Body(r).o.max_tokens

\* C2: for a body that contains messages, an omitted model is forwarded as
\* "claude-sonnet-4-5-20250929" and an omitted max_tokens as 1200, and
\* defaulting one of the two leaves a supplied non-empty model or non-zero
\* max_tokens as it was sent.
C2_DefaultsForOmittedFields ==
    \A r \in Requests :
        Issued(r) /\ Has(r, "messages") =>
            /\ ~Has(r, "model") =>
                   calls[r][1].model = Str("claude-sonnet-4-5-20250929")
            /\ ~Has(r, "max_tokens") =>
                   calls[r][1].max_tokens = Num(1200)
            /\ Has(r, "model") /\ Body(r).o.model = Str("x") =>
                   calls[r][1].model = Str("x")
            /\ Has(r, "max_tokens") /\ Body(r).o.max_tokens = Num(5) =>
                   calls[r][1].max_tokens = Num(5)

C2_Witness ==
    \E r \in Requests :
        /\ Issued(r) /\ Has(r, "messages")
        /\ ~Has(r, "model") /\ Has(r, "max_tokens")
        /\ calls[r][1].model = Str("claude-sonnet-4-5-20250929")
        /\ calls[r][1].max_tokens = Num(5)

\* C3: when the upstream call rejects, whatever the rejection value, the
\* request is answered with status 500 and a JSON object whose only key is
\* error, holding a message string (the Error's message when an Error was
\* thrown).
C3_FailureEnvelope ==
    \A r \in Requests :
        pc[r] = "done" /\ outcome[r] # None /\ outcome[r].kind = "rejected" =>
            /\ Len(responses[r]) = 1
            /\ responses[r][1].status = 500
            /\ responses[r][1].body.t = "object"
            /\ DOMAIN responses[r][1].body.o = {"error"}
            /\ responses[r][1].body.o.error.t = "string"
            /\ outcome[r].value.t = "error" =>
                   responses[r][1].body.o.error = Str(outcome[r].value.message)

\* C4: when the upstream call resolves, the request is answered with status
\* 200 and a body equal to the resolved value.
C4_SuccessVerbatim ==
    \A r \in Requests :
        pc[r] = "done" /\ outcome[r] # None /\ outcome[r].kind = "resolved" =>
            responses[r] = <<[status |-> 200, body |-> outcome[r].value]>>

C4_Witness ==
    \E r \in Requests :
        /\ pc[r] = "done"
        /\ outcome[r] = Resolved(Message)
        /\ responses[r] = <<[status |-> 200, body |-> Message]>>

\* C5: the messages passed upstream are the body's messages, same elements
\* in the same order (undefined when the body has none), whichever of model
\* and max_tokens were defaulted.
C5_MessagesUnmodified ==
    \A r \in Requests :
        Issued(r) =>
            calls[r][1].messages =
                IF Has(r, "messages") THEN Body(r).o.messages ELSE Undefined

C5_Witness ==
    \E r \in Requests :
        /\ Issued(r) /\ Has(r, "messages") /\ ~Has(r, "model")
        /\ Body(r).o.messages = Arr(<<Yo, Hi>>)
        /\ calls[r][1].messages = Arr(<<Yo, Hi>>)
        /\ calls[r][1].model = Str(DefaultModel)

C7_OneUpstreamCall ==
    \A r \in Requests :
        Len(calls[r]) = IF entered[r] THEN 1 ELSE 0

C7_Witness ==
    \E r \in Requests :
        /\ pc[r] = "done" /\ entered[r]
        /\ outcome[r] = Rejected(ErrorObj("rate limited"))
        /\ Len(calls[r]) = 1

\* C8: a request whose body is malformed JSON never enters the handler and
\* causes no upstream call; the parser answers it with a 400.
C8_MalformedRejected ==
    \A r \in Requests :
        raw[r] = Malformed =>
            /\ ~entered[r]
            /\ calls[r] = <<>>
            /\ pc[r] \in {"inflight", "done"}
            /\ pc[r] = "done" => /\ Len(responses[r]) = 1
                                 /\ responses[r][1].status = 400

C8_Witness ==
    \E r \in Requests :
        raw[r] = Malformed /\ pc[r] = "done" /\ responses[r][1].status = 400

\* C9: a request that entered the handler is answered only after its
\* upstream call has settled, at most once, and once the handler has
\* finished with a settled call the request has its response.
C9_AnsweredOnceAfterUpstream ==
    \A r \in Requests :
        entered[r] =>
            /\ Answered(r) => outcome[r] # None
            /\ Len(responses[r]) <= 1
            /\ pc[r] = "done" => Len(responses[r]) = 1

Accepted(s) == Trim(s) # <<>>
RECURSIVE TrimAll(_)
TrimAll(h) == IF h = <<>> THEN <<>> ELSE <<Trim(Head(h))>> \o TrimAll(Tail(h))

\* C10: the list holds the trimmed values of the clicks whose trimmed value
\* was non-empty, in click order, and so does myColleges in the college
\* script; a click on an empty or whitespace-only field raises an alert and
\* changes neither the list, myColleges nor the field; an accepted click
\* appends the trimmed value and clears the field.
C10_ListHoldsAcceptedClicks ==
    /\ [](/\ ls = TrimAll(SelectSeq(clicks, Accepted))
          /\ script = "college" => myColleges = ls
          /\ alerts = Len(clicks) - Len(ls))
    /\ [][clicks' # clicks =>
            IF Accepted(input)
            THEN /\ ls' = Append(ls, Trim(input))
                 /\ input' = <<>>
                 /\ alerts' = alerts
            ELSE /\ alerts' = alerts + 1
                 /\ UNCHANGED <<ls, myColleges, input>>]_vars

C10_Witness ==
    /\ script = "college"
    /\ clicks = <<<<" ", "a">>, <<" ", " ">>, <<"a", "a">>>>
    /\ ls = <<<<"a">>, <<"a", "a">>>>
    /\ myColleges = ls
    /\ alerts = 1
    /\ input = <<>>

====
